---------------------------- MODULE Spec2Model ----------------------------
(***************************************************************************)
(* A model of src/napi/mod.rs, the helper layer over the host runtime's    *)
(* native-addon ABI (N-API).  The helpers are modelled as operators, the   *)
(* ABI entry points they call as operators on a model of the host heap.    *)
(* The module holds four specifications, one per group of helpers:         *)
(*   SpecCursor  NapiArray: from_existing, with_capacity, push, next, len  *)
(*   SpecString  create_string_utf8, get_string, get_object_map            *)
(*   SpecArg     get_arg                                                   *)
(*   SpecRef     create_reference, get_reference_value, delete_reference   *)
(***************************************************************************)
EXTENDS Integers, Sequences, FiniteSets, TLC

VARIABLES
    build,        \* "debug" or "release": whether debug_assert! is compiled in
    panicked,     \* TRUE once a debug assertion has failed (the process is gone)
    \* ---- NapiArray cursor
    hostArray,    \* the elements of the host array the cursor wraps
    made,         \* "none", "from_existing" or "with_capacity"
    cursor,       \* the NapiArray struct: [current_index, length]
    results,      \* what the calls of next returned so far, in order
    lastPush,     \* the last push: the array before it and the element pushed
    pushCount,    \* number of calls of push
    \* ---- strings and property mappings
    sPc,          \* "start", "have_value", "done", "done_map"
    sFromRust,    \* TRUE when sValue was made by create_string_utf8(sInput)
    sInput,       \* the Rust string X handed to create_string_utf8, as bytes
    sValue,       \* the host value handed to get_string
    sResult,      \* what get_string returned
    obj,          \* the host object handed to get_object_map
    oMap,         \* what get_object_map returned
    \* ---- get_arg
    aPc,          \* "start", "done"
    setLenChecked,\* TRUE when Vec::set_len's precondition check is compiled in
    aArgs,        \* the arguments of the call, as the host holds them
    aIndex,       \* arg_index
    aResult,      \* what get_arg returned, and the argument vector it left
    \* ---- references
    allocated,    \* the values the host ever allocated
    heapLive,     \* the values the host has not reclaimed
    scope,        \* the values the open handle scope keeps alive
    refs,         \* the host's references: [value, count, deleted]
    created,      \* the value each create_reference was given
    resolved,     \* the last get_reference_value: [ref, value]
    lastOp        \* the last operation: <<name, reference>>

cursorVars == <<hostArray, made, cursor, results, lastPush, pushCount>>
stringVars == <<sPc, sFromRust, sInput, sValue, sResult, obj, oMap>>
argVars == <<aPc, setLenChecked, aArgs, aIndex, aResult>>
refVars == <<allocated, heapLive, scope, refs, created, resolved, lastOp>>
vars == <<build, panicked, cursorVars, stringVars, argVars, refVars>>

Builds == {"debug", "release"}

(***************************************************************************)
(* Bounds of the model.                                                    *)
(***************************************************************************)
MaxLen == 3         \* longest host array
MaxExtraNext == 2   \* calls of next after the first None
MaxPush == 2        \* calls of push on one cursor
MaxStrLen == 2      \* longest Rust string, in characters
MaxProps == 2       \* most properties of a host object
MaxArgs == 3        \* most arguments of a call, and largest arg_index
MaxValues == 3      \* values the host allocates
MaxRefs == 2        \* references created

(***************************************************************************)
(* Value handles.  An array element is one of two distinguishable handles  *)
(* or the host's undefined value (a hole of a fresh array reads as that).  *)
(***************************************************************************)
Undefined == "undefined"
Elems == {"v1", "v2"}

None == [some |-> FALSE, v |-> "-"]
Some(v) == [some |-> TRUE, v |-> v]

\* debug_assert!(status == napi_status_napi_ok): fails only in a debug build.
debug_assert_fails(b, statusOk) == b = "debug" /\ ~statusOk

(***************************************************************************)
(* The host's array entry points.                                          *)
(***************************************************************************)
\* napi_get_array_length
napi_get_array_length(arr) == Len(arr)

\* napi_get_element: the element at a 0-based index, undefined past the end
napi_get_element(arr, index) ==
    IF index < Len(arr) THEN arr[index + 1] ELSE Undefined

\* napi_create_array_with_length: an array of `length` holes
napi_create_array_with_length(length) == [i \in 1..length |-> Undefined]

(***************************************************************************)
(* NapiArray                                                               *)
(***************************************************************************)
from_existing(arr) ==
    [current_index |-> 0, length |-> napi_get_array_length(arr)]

with_capacity(capacity) ==
    [array |-> napi_create_array_with_length(capacity),
     self  |-> [current_index |-> 0, length |-> 0]]

\* next with the bound test off by one (`>` for `>=`)
next_off_by_one(self, arr) ==
    IF self.current_index > self.length
    THEN [self |-> self, result |-> None]
    ELSE [self   |-> [self EXCEPT !.current_index = self.current_index + 1],
          result |-> Some(napi_get_element(arr, self.current_index))]

\* Iterator::next: the cursor after the call and the Option returned
next(self, arr) ==
    IF self.current_index >= self.length
    THEN [self |-> self, result |-> None]
    ELSE [self   |-> [self EXCEPT !.current_index = self.current_index + 1],
          result |-> Some(napi_get_element(arr, self.current_index))]

\* ExactSizeIterator::len
len(self) == self.length

(***************************************************************************)
(* push_array(env, array, elem).  The property name handed to              *)
(* napi_get_named_property is "slice".as_ptr(): a Rust literal carries no  *)
(* terminating NUL, so the host reads "slice" followed by whatever bytes   *)
(* the build placed after it.  The name resolved is either "slice" itself  *)
(* (the next byte happens to be 0) or a longer name starting with "slice". *)
(***************************************************************************)
ResolvedNames == {"slice", "slice?"}

\* napi_get_named_property on a host array: Array.prototype.slice, or
\* undefined for a name the array does not have.
napi_get_named_property_of_array(name) ==
    IF name = "slice" THEN "Array.prototype.slice" ELSE Undefined

\* napi_call_function(env, recv, func, 1, [elem]): the receiver afterwards and
\* whether the status is napi_ok.  Array.prototype.slice returns a copy and
\* leaves the receiver as it is; calling a non-function is a failing status.
napi_call_function_on_array(arr, func, elem) ==
    IF func = "Array.prototype.slice"
    THEN [array |-> arr, ok |-> TRUE]
    ELSE [array |-> arr, ok |-> FALSE]

push_array(arr, elem, name) ==
    napi_call_function_on_array(arr, napi_get_named_property_of_array(name), elem)

\* push that also counts the element into the cached length
push_bumps_length(self, arr, elem, name) ==
    [self |-> [self EXCEPT !.length = self.length + 1]]
        @@ push_array(arr, elem, name)

\* NapiArray::push: the cursor, the array and the status afterwards
push(self, arr, elem, name) ==
    [self |-> self] @@ push_array(arr, elem, name)

\* How many elements next will still yield from a cursor
RECURSIVE Remaining(_, _)
Remaining(self, arr) ==
    IF next(self, arr).result.some
    THEN 1 + Remaining(next(self, arr).self, arr)
    ELSE 0

(***************************************************************************)
(* UTF-8.  A Rust &str is a sequence of bytes that is valid UTF-8; a host  *)
(* string is a sequence of code points, each taking one or two UTF-16      *)
(* units.                                                                  *)
(***************************************************************************)
CodePoints == {97, 233, 8364, 128512}    \* 'a', e-acute, euro sign, an emoji

Utf8Encode(cp) ==
    IF cp < 128 THEN <<cp>>
    ELSE IF cp < 2048 THEN <<192 + (cp \div 64), 128 + (cp % 64)>>
    ELSE IF cp < 65536
         THEN <<224 + (cp \div 4096), 128 + ((cp \div 64) % 64), 128 + (cp % 64)>>
    ELSE <<240 + (cp \div 262144), 128 + ((cp \div 4096) % 64),
           128 + ((cp \div 64) % 64), 128 + (cp % 64)>>

RECURSIVE Utf8EncodeAll(_)
Utf8EncodeAll(chars) ==
    IF chars = <<>> THEN <<>>
    ELSE Utf8Encode(Head(chars)) \o Utf8EncodeAll(Tail(chars))

\* Bytes a sequence starting with this byte takes; 0 for a byte that starts none
Utf8Width(lead) ==
    IF lead < 128 THEN 1
    ELSE IF lead >= 192 /\ lead < 224 THEN 2
    ELSE IF lead >= 224 /\ lead < 240 THEN 3
    ELSE IF lead >= 240 /\ lead < 248 THEN 4
    ELSE 0

IsContinuation(b) == b >= 128 /\ b < 192

Utf8CodePoint(bs) ==
    IF Len(bs) = 1 THEN bs[1]
    ELSE IF Len(bs) = 2 THEN (bs[1] - 192) * 64 + (bs[2] - 128)
    ELSE IF Len(bs) = 3
         THEN (bs[1] - 224) * 4096 + (bs[2] - 128) * 64 + (bs[3] - 128)
    ELSE (bs[1] - 240) * 262144 + (bs[2] - 128) * 4096
         + (bs[3] - 128) * 64 + (bs[4] - 128)

\* Decoding: [ok, chars]; ok is FALSE when the bytes are not valid UTF-8
RECURSIVE Utf8Decode(_)
Utf8Decode(bytes) ==
    IF bytes = <<>> THEN [ok |-> TRUE, chars |-> <<>>]
    ELSE LET w == Utf8Width(bytes[1]) IN
         IF w = 0 \/ w > Len(bytes)
            \/ \E i \in 2..w : ~IsContinuation(bytes[i])
         THEN [ok |-> FALSE, chars |-> <<>>]
         ELSE LET rest == Utf8Decode(SubSeq(bytes, w + 1, Len(bytes))) IN
              [ok    |-> rest.ok,
               chars |-> <<Utf8CodePoint(SubSeq(bytes, 1, w))>> \o rest.chars]

\* The `length` property of a host string: its number of UTF-16 units
Utf16Units(cp) == IF cp >= 65536 THEN 2 ELSE 1

RECURSIVE Utf16Length(_)
Utf16Length(chars) ==
    IF chars = <<>> THEN 0
    ELSE Utf16Units(Head(chars)) + Utf16Length(Tail(chars))

(***************************************************************************)
(* Host values: a type tag, the code points of a string, and the value's   *)
(* `length` property when it has a numeric one.                            *)
(***************************************************************************)
HostValue(t, chars, hasLength, n) ==
    [type |-> t, chars |-> chars, hasNumLength |-> hasLength, num |-> n]

StringValue(chars) == HostValue("string", chars, TRUE, Utf16Length(chars))
NumberValue(n) == HostValue("number", <<>>, FALSE, n)
UndefinedValue == HostValue("undefined", <<>>, FALSE, 0)

\* The values that are not strings, of every type the host distinguishes
NonStringValues ==
    {UndefinedValue, HostValue("null", <<>>, FALSE, 0),
     HostValue("boolean", <<>>, FALSE, 0)}
    \cup {NumberValue(n) : n \in 0..1}
    \cup {HostValue("object", <<>>, h, n) : h \in BOOLEAN, n \in 0..1}
    \cup {HostValue(t, <<>>, TRUE, n) : t \in {"array", "buffer", "function"},
                                        n \in 0..2}

Ok(bytes) == [kind |-> "Ok", bytes |-> bytes]
UnableToCreateString == [kind |-> "Err", bytes |-> <<>>]
AssertionFailure == [kind |-> "Panic", bytes |-> <<>>]

\* create_string_utf8: the host decodes the bytes of the &str
create_string_utf8(string) == StringValue(Utf8Decode(string).chars)

\* napi_get_property(env, value, "length"): undefined and null cannot be
\* converted to an object and give a failing status; a value with no numeric
\* `length` gives undefined.
napi_get_property_length(value) ==
    IF value.type \in {"undefined", "null"}
    THEN [ok |-> FALSE, value |-> UndefinedValue]
    ELSE IF value.hasNumLength
    THEN [ok |-> TRUE, value |-> NumberValue(value.num)]
    ELSE [ok |-> TRUE, value |-> UndefinedValue]

\* napi_get_value_uint32: a failing status for anything but a number, and
\* then `num` keeps the 0 it was initialised with
napi_get_value_uint32(value) ==
    IF value.type = "number"
    THEN [ok |-> TRUE, num |-> value.num]
    ELSE [ok |-> FALSE, num |-> 0]

\* The longest prefix of whole characters whose encoding fits in `room` bytes
RECURSIVE WholeCharPrefix(_, _)
WholeCharPrefix(chars, room) ==
    IF chars = <<>> \/ Len(Utf8Encode(Head(chars))) > room THEN <<>>
    ELSE Utf8Encode(Head(chars))
         \o WholeCharPrefix(Tail(chars), room - Len(Utf8Encode(Head(chars))))

\* napi_get_value_string_utf8(env, value, buf, bufsize, &length): the host
\* writes at most bufsize - 1 bytes of the encoding, whole characters only,
\* then the terminator; "string expected" for a value that is no string.
napi_get_value_string_utf8(value, bufsize) ==
    IF value.type # "string"
    THEN [status |-> "string_expected", bytes |-> <<>>]
    ELSE [status |-> "ok", bytes |-> WholeCharPrefix(value.chars, bufsize - 1)]

\* String::from_utf8(vec).or(Err(UnableToCreateString))
from_utf8(bytes) ==
    IF Utf8Decode(bytes).ok THEN Ok(bytes) ELSE UnableToCreateString

\* get_string(env, value) in a build b.  `num` is a u32 and `num += 1` would
\* overflow only for a length of 2^32 - 1, far above the lengths drawn here.
\* CStr::from_ptr over the fresh buffer only carries the buffer's address to
\* the host; what it reads of the buffer is not used.
get_string(b, value) ==
    LET p == napi_get_property_length(value) IN
    IF ~p.ok THEN UnableToCreateString
    ELSE LET n == napi_get_value_uint32(p.value) IN
         IF debug_assert_fails(b, n.ok) THEN AssertionFailure
         ELSE LET num == n.num + 1
                  e == napi_get_value_string_utf8(value, num)
              IN  IF e.status = "string_expected" THEN UnableToCreateString
                  ELSE IF debug_assert_fails(b, e.status = "ok")
                  THEN AssertionFailure
                  ELSE from_utf8(e.bytes)

(***************************************************************************)
(* SpecCursor: one cursor is constructed over a host array, then next and  *)
(* push are called on it in any order.                                     *)
(***************************************************************************)
ArraysUpTo(n) == UNION {[1..k -> Elems] : k \in 0..n}

NoPush == [before |-> <<>>, elem |-> "-", called |-> FALSE]

\* The variables of the specifications that are not running
IdleCursor ==
    /\ hostArray = <<>>
    /\ made = "none"
    /\ cursor = [current_index |-> 0, length |-> 0]
    /\ results = <<>>
    /\ lastPush = NoPush
    /\ pushCount = 0

IdleString ==
    /\ sPc = "idle"
    /\ sFromRust = FALSE
    /\ sInput = <<>>
    /\ sValue = UndefinedValue
    /\ sResult = UnableToCreateString
    /\ obj = <<>>
    /\ oMap = [panicked |-> FALSE, map |-> <<>>]

NoArgResult == [kind |-> "none", v |-> "-", capacity |-> 0, new_len |-> 0]

IdleArg ==
    /\ aPc = "idle"
    /\ setLenChecked = FALSE
    /\ aArgs = <<>>
    /\ aIndex = 0
    /\ aResult = NoArgResult

NoResolved == [ref |-> 0, value |-> "-"]

IdleRef ==
    /\ allocated = {}
    /\ heapLive = {}
    /\ scope = {}
    /\ refs = <<>>
    /\ created = <<>>
    /\ resolved = NoResolved
    /\ lastOp = <<"none", 0>>

InitCursor ==
    /\ build \in Builds
    /\ panicked = FALSE
    /\ hostArray \in ArraysUpTo(MaxLen)
    /\ made = "none"
    /\ cursor = [current_index |-> 0, length |-> 0]
    /\ results = <<>>
    /\ lastPush = NoPush
    /\ pushCount = 0
    /\ IdleString /\ IdleArg /\ IdleRef

FromExisting ==
    /\ made = "none" /\ ~panicked
    /\ made' = "from_existing"
    /\ cursor' = from_existing(hostArray)
    /\ UNCHANGED <<build, panicked, hostArray, results, lastPush, pushCount, stringVars, argVars, refVars>>

WithCapacity ==
    /\ made = "none" /\ ~panicked
    /\ \E capacity \in 0..MaxLen :
          /\ hostArray' = with_capacity(capacity).array
          /\ cursor' = with_capacity(capacity).self
    /\ made' = "with_capacity"
    /\ UNCHANGED <<build, panicked, results, lastPush, pushCount, stringVars, argVars, refVars>>

NoneCount == Cardinality({i \in 1..Len(results) : ~results[i].some})

CallNext ==
    /\ made # "none" /\ ~panicked
    /\ NoneCount <= MaxExtraNext
    /\ cursor' = next(cursor, hostArray).self
    /\ results' = Append(results, next(cursor, hostArray).result)
    /\ UNCHANGED <<build, panicked, hostArray, made, lastPush, pushCount, stringVars, argVars, refVars>>

CallPush ==
    /\ made # "none" /\ ~panicked
    /\ pushCount < MaxPush
    /\ \E elem \in Elems, name \in ResolvedNames :
          LET r == push(cursor, hostArray, elem, name) IN
          /\ cursor' = r.self
          /\ hostArray' = r.array
          /\ panicked' = debug_assert_fails(build, r.ok)
          /\ lastPush' = [before |-> hostArray, elem |-> elem, called |-> TRUE]
    /\ pushCount' = pushCount + 1
    /\ UNCHANGED <<build, made, results, stringVars, argVars, refVars>>

NextCursor == FromExisting \/ WithCapacity \/ CallNext \/ CallPush

SpecCursor == InitCursor /\ [][NextCursor]_vars

(***************************************************************************)
(* get_object_map.  A host object is the sequence of its properties in     *)
(* enumeration order, each a name handle and a value handle.  The name     *)
(* handles napi_get_property_names returns are strings; a host that keeps  *)
(* integer-index keys as numbers returns those as number values.           *)
(***************************************************************************)
PropertyNames ==
    {StringValue(<<97>>), StringValue(<<98>>), StringValue(<<233>>),
     StringValue(<<252>>), NumberValue(0)}

\* napi_get_property_names: the array of the name handles
napi_get_property_names(object) == [i \in 1..Len(object) |-> object[i].name]

\* napi_get_property(env, object, key)
napi_get_property(object, key) ==
    IF \E i \in 1..Len(object) : object[i].name = key
    THEN object[CHOOSE i \in 1..Len(object) : object[i].name = key].value
    ELSE Undefined

\* BTreeMap::insert
insert(map, key, value) ==
    [k \in DOMAIN map \cup {key} |-> IF k = key THEN value ELSE map[k]]

\* The body of `for key in NapiArray::from_existing(env, keys_value)`
RECURSIVE get_object_map_loop(_, _, _, _, _)
get_object_map_loop(b, object, keys, self, map) ==
    LET n == next(self, keys) IN
    IF ~n.result.some THEN [panicked |-> FALSE, map |-> map]
    ELSE LET key == n.result.v
             value == napi_get_property(object, key)
             s == get_string(b, key)
         IN  IF s.kind = "Panic" THEN [panicked |-> TRUE, map |-> map]
             ELSE get_object_map_loop(b, object, keys, n.self,
                      IF s.kind = "Ok" THEN insert(map, s.bytes, value) ELSE map)

get_object_map(b, object) ==
    LET keys == napi_get_property_names(object) IN
    get_object_map_loop(b, object, keys, from_existing(keys), <<>>)

(***************************************************************************)
(* SpecString: a value is made (by create_string_utf8 from a Rust string,  *)
(* or by the host) and read with get_string; a host object is built and    *)
(* read with get_object_map.                                               *)
(***************************************************************************)
RustStrings ==
    {Utf8EncodeAll(chars) : chars \in UNION {[1..k -> CodePoints] : k \in 0..MaxStrLen}}

InitString ==
    /\ build \in Builds
    /\ panicked = FALSE
    /\ sPc = "start"
    /\ sFromRust = FALSE
    /\ sInput = <<>>
    /\ sValue = UndefinedValue
    /\ sResult = UnableToCreateString
    /\ obj = <<>>
    /\ oMap = [panicked |-> FALSE, map |-> <<>>]
    /\ IdleCursor /\ IdleArg /\ IdleRef

CreateStringUtf8 ==
    /\ sPc = "start" /\ obj = <<>>
    /\ \E X \in RustStrings :
          /\ sInput' = X
          /\ sValue' = create_string_utf8(X)
    /\ sFromRust' = TRUE
    /\ sPc' = "have_value"
    /\ UNCHANGED <<build, panicked, sResult, obj, oMap, cursorVars, argVars, refVars>>

HostMakesValue ==
    /\ sPc = "start" /\ obj = <<>>
    /\ sValue' \in NonStringValues
    /\ sPc' = "have_value"
    /\ UNCHANGED <<build, panicked, sFromRust, sInput, sResult, obj, oMap, cursorVars, argVars, refVars>>

GetString ==
    /\ sPc = "have_value"
    /\ sResult' = get_string(build, sValue)
    /\ panicked' = (sResult'.kind = "Panic")
    /\ sPc' = "done"
    /\ UNCHANGED <<build, sFromRust, sInput, sValue, obj, oMap, cursorVars, argVars, refVars>>

HostDefinesProperty ==
    /\ sPc = "start"
    /\ Len(obj) < MaxProps
    /\ \E name \in PropertyNames, value \in Elems :
          /\ \A i \in 1..Len(obj) : obj[i].name # name
          /\ obj' = Append(obj, [name |-> name, value |-> value])
    /\ UNCHANGED <<build, panicked, sPc, sFromRust, sInput, sValue, sResult, oMap, cursorVars, argVars, refVars>>

GetObjectMap ==
    /\ sPc = "start"
    /\ oMap' = get_object_map(build, obj)
    /\ panicked' = oMap'.panicked
    /\ sPc' = "done_map"
    /\ UNCHANGED <<build, sFromRust, sInput, sValue, sResult, obj, cursorVars, argVars, refVars>>

NextString ==
    \/ CreateStringUtf8 \/ HostMakesValue \/ GetString
    \/ HostDefinesProperty \/ GetObjectMap

SpecString == InitString /\ [][NextString]_vars

(***************************************************************************)
(* Properties of the cursor (SpecCursor)                                   *)
(***************************************************************************)
\* C1: a cursor built by from_existing over an array of length N yields the
\* array's elements 0..N-1 in order and None on every call after them, and
\* current_index never exceeds length.
C1_FromExistingYieldsAllThenNone ==
    made = "from_existing" =>
        /\ cursor.current_index <= cursor.length
        /\ \A i \in 1..Len(results) :
              results[i] = IF i <= Len(hostArray) THEN Some(hostArray[i]) ELSE None

C1_Witness ==
    /\ made = "from_existing"
    /\ Len(hostArray) >= 2
    /\ Len(results) >= Len(hostArray) + 2

\* C2: push leaves the cursor's length and current_index as they are, and a
\* cursor built by with_capacity yields no element, pushes or not.
C2_PushKeepsCursorEmpty ==
    [][/\ pushCount' # pushCount => cursor' = cursor
       /\ made' = "with_capacity" =>
             /\ cursor'.length = 0 /\ cursor'.current_index = 0
             /\ \A i \in 1..Len(results') : ~results'[i].some]_vars

C2_Witness ==
    /\ made = "with_capacity"
    /\ Len(hostArray) >= 1
    /\ pushCount >= 1
    /\ Len(results) >= 1
    /\ ~results[Len(results)].some

\* C3: after push(elem) the host array is the array before the call with elem
\* appended as its last element.
C3_PushAppends ==
    lastPush.called => hostArray = Append(lastPush.before, lastPush.elem)

\* C9: at every point of an iteration len() is the number of elements next
\* will still yield.
C9_LenIsRemaining ==
    made # "none" => len(cursor) = Remaining(cursor, hostArray)

(***************************************************************************)
(* Properties of get_string and get_object_map (SpecString)                *)
(***************************************************************************)
\* C4: get_string(create_string_utf8(X)) returns Ok(X) for every Rust string X.
C4_StringRoundTrip ==
    (sPc = "done" /\ sFromRust) => sResult = Ok(sInput)

\* C5: get_string of a value that is not a string returns
\* UnableToCreateString: not Ok, and no assertion failure.
C5_NonStringIsUnableToCreateString ==
    (sPc = "done" /\ sValue.type # "string") => sResult = UnableToCreateString

\* The name of a property as a Rust string
NameBytes(name) == Utf8EncodeAll(name.chars)

\* C6: the mapping get_object_map returns has exactly one entry for each
\* property name get_string succeeds on, under that name and with the
\* property's value; the names get_string fails on are left out and the
\* enumeration goes on.
C6_MapHasEachReadableName ==
    sPc = "done_map" =>
        LET readable == {i \in 1..Len(obj) : get_string(build, obj[i].name).kind = "Ok"}
        IN  /\ ~oMap.panicked
            /\ DOMAIN oMap.map = {NameBytes(obj[i].name) : i \in readable}
            /\ Cardinality(DOMAIN oMap.map) = Cardinality(readable)
            /\ \A i \in readable :
                  /\ NameBytes(obj[i].name) \in DOMAIN oMap.map
                  /\ oMap.map[NameBytes(obj[i].name)] = obj[i].value

(***************************************************************************)
(* get_arg                                                                 *)
(***************************************************************************)
\* get_undefined_value
get_undefined_value == Undefined

\* napi_get_cb_info(env, info, &argc, argv, ..): the host copies the actual
\* arguments into the argc slots of argv, fills the slots past them with
\* undefined, and stores the number of actual arguments in argc.
napi_get_cb_info(actual, argc) ==
    [argv |-> [i \in 1..argc |-> IF i <= Len(actual) THEN actual[i] ELSE Undefined],
     argc |-> Len(actual)]

\* Vec::set_len(new_len) on a vector of the given capacity.  A new_len above
\* the capacity breaks the method's safety contract: a build with the
\* library's precondition check aborts there, a build without it stores the
\* length.
set_len(capacity, new_len, checked) ==
    IF checked /\ new_len > capacity
    THEN [aborted |-> TRUE, len |-> 0]
    ELSE [aborted |-> FALSE, len |-> new_len]

\* get_arg(env, info, arg_index): the value returned, the capacity of the
\* argument vector and the length handed to set_len
get_arg(checked, actual, arg_index) ==
    LET num_args == arg_index + 1
        capacity == num_args
        cb == napi_get_cb_info(actual, num_args)
        sl == set_len(capacity, cb.argc, checked)
    IN  IF sl.aborted
        THEN [kind |-> "Abort", v |-> "-", capacity |-> capacity, new_len |-> cb.argc]
        ELSE [kind |-> "Value",
              v |-> IF arg_index < sl.len
                    THEN cb.argv[arg_index + 1]
                    ELSE get_undefined_value,
              capacity |-> capacity, new_len |-> cb.argc]

(***************************************************************************)
(* SpecArg: the host calls back with some arguments and the callback reads *)
(* one with get_arg.                                                       *)
(***************************************************************************)
InitArg ==
    /\ build \in Builds
    /\ panicked = FALSE
    /\ aPc = "start"
    /\ setLenChecked \in {c \in BOOLEAN : c => build = "debug"}
    /\ aArgs \in UNION {[1..k -> Elems] : k \in 0..MaxArgs}
    /\ aIndex = 0
    /\ aResult = NoArgResult
    /\ IdleCursor /\ IdleString /\ IdleRef

GetArg ==
    /\ aPc = "start"
    /\ \E arg_index \in 0..MaxArgs :
          /\ aIndex' = arg_index
          /\ aResult' = get_arg(setLenChecked, aArgs, arg_index)
    /\ panicked' = (aResult'.kind = "Abort")
    /\ aPc' = "done"
    /\ UNCHANGED <<build, setLenChecked, aArgs, cursorVars, stringVars, refVars>>

NextArg == GetArg

SpecArg == InitArg /\ [][NextArg]_vars

\* C7: get_arg returns the argument at arg_index when the call has one there,
\* and the host's undefined value when it has not; it never fails.
C7_ArgOrUndefined ==
    aPc = "done" =>
        /\ aResult.kind = "Value"
        /\ aResult.v = IF aIndex < Len(aArgs) THEN aArgs[aIndex + 1] ELSE Undefined

\* C10: the length get_arg sets on the argument vector never exceeds the
\* capacity arg_index + 1 the vector was allocated with.
C10_SetLenWithinCapacity ==
    aPc = "done" => aResult.new_len <= aResult.capacity

(***************************************************************************)
(* References.  The host keeps a value alive while the open handle scope   *)
(* holds it or a reference with a count above 0 pins it, and may reclaim   *)
(* it otherwise.                                                           *)
(***************************************************************************)
Values == 1..MaxValues
Empty == 0      \* the handle a reference to a reclaimed value resolves to

\* napi_create_reference(env, value, initial_refcount, &reference)
napi_create_reference(value, initial_refcount) ==
    [value |-> value, count |-> initial_refcount, deleted |-> FALSE]

\* create_reference with an initial count of 0: a weak reference
create_reference_weak(value) == napi_create_reference(value, 0)

create_reference(value) == napi_create_reference(value, 1)

\* napi_get_reference_value
napi_get_reference_value(live, reference) ==
    IF reference.value \in live THEN reference.value ELSE Empty

get_reference_value(live, reference) == napi_get_reference_value(live, reference)

\* napi_delete_reference
napi_delete_reference(reference) == [reference EXCEPT !.deleted = TRUE]

delete_reference(reference) == napi_delete_reference(reference)

\* create_object, standing for the create_* helpers: a fresh value, held by
\* the open handle scope
create_object(alloc) == CHOOSE v \in Values : v \notin alloc

Pinned(rs, v) ==
    \E r \in 1..Len(rs) : rs[r].value = v /\ ~rs[r].deleted /\ rs[r].count > 0

(***************************************************************************)
(* SpecRef: the helpers of the layer called in any order, with the host    *)
(* closing handle scopes and reclaiming unpinned values in between.        *)
(***************************************************************************)
InitRef ==
    /\ build \in Builds
    /\ panicked = FALSE
    /\ allocated = {}
    /\ heapLive = {}
    /\ scope = {}
    /\ refs = <<>>
    /\ created = <<>>
    /\ resolved = NoResolved
    /\ lastOp = <<"none", 0>>
    /\ IdleCursor /\ IdleString /\ IdleArg

CreateObject ==
    /\ allocated # Values
    /\ LET v == create_object(allocated) IN
          /\ allocated' = allocated \cup {v}
          /\ heapLive' = heapLive \cup {v}
          /\ scope' = scope \cup {v}
    /\ lastOp' = <<"create_object", 0>>
    /\ UNCHANGED <<build, panicked, refs, created, resolved,
                   cursorVars, stringVars, argVars>>

CreateReference ==
    /\ Len(refs) < MaxRefs
    /\ \E v \in scope :
          /\ refs' = Append(refs, create_reference(v))
          /\ created' = Append(created, v)
    /\ lastOp' = <<"create_reference", Len(refs) + 1>>
    /\ UNCHANGED <<build, panicked, allocated, heapLive, scope, resolved,
                   cursorVars, stringVars, argVars>>

GetReferenceValue ==
    /\ \E r \in 1..Len(refs) :
          /\ ~refs[r].deleted
          /\ LET v == get_reference_value(heapLive, refs[r]) IN
                /\ resolved' = [ref |-> r, value |-> v]
                /\ scope' = IF v = Empty THEN scope ELSE scope \cup {v}
          /\ lastOp' = <<"get_reference_value", r>>
    /\ UNCHANGED <<build, panicked, allocated, heapLive, refs, created,
                   cursorVars, stringVars, argVars>>

DeleteReference ==
    /\ \E r \in 1..Len(refs) :
          /\ ~refs[r].deleted
          /\ refs' = [refs EXCEPT ![r] = delete_reference(refs[r])]
          /\ lastOp' = <<"delete_reference", r>>
    /\ UNCHANGED <<build, panicked, allocated, heapLive, scope, created, resolved,
                   cursorVars, stringVars, argVars>>

\* The native callback returns: the host closes its handle scope
HostClosesScope ==
    /\ scope # {}
    /\ scope' = {}
    /\ lastOp' = <<"close_scope", 0>>
    /\ UNCHANGED <<build, panicked, allocated, heapLive, refs, created, resolved,
                   cursorVars, stringVars, argVars>>

\* The host's collector reclaims a value nothing keeps alive
HostCollects ==
    /\ \E v \in heapLive :
          /\ v \notin scope
          /\ ~Pinned(refs, v)
          /\ heapLive' = heapLive \ {v}
    /\ lastOp' = <<"collect", 0>>
    /\ UNCHANGED <<build, panicked, allocated, scope, refs, created, resolved,
                   cursorVars, stringVars, argVars>>

NextRef ==
    \/ CreateObject \/ CreateReference \/ GetReferenceValue \/ DeleteReference
    \/ HostClosesScope \/ HostCollects

SpecRef == InitRef /\ [][NextRef]_vars

\* C8: a reference made by create_reference has count 1 and, until
\* delete_reference is called on it, stays live and resolves to the value it
\* was made from; nothing but delete_reference on it releases it.
C8_ReferencePinsUntilDeleted ==
    [][/\ \A r \in 1..Len(refs') :
             ~refs'[r].deleted =>
                 /\ refs'[r].count = 1
                 /\ created'[r] \in heapLive'
                 /\ get_reference_value(heapLive', refs'[r]) = created'[r]
       /\ lastOp'[1] = "get_reference_value" => resolved'.value = created'[resolved'.ref]
       /\ \A r \in 1..Len(refs) :
             (~refs[r].deleted /\ refs'[r].deleted) => lastOp' = <<"delete_reference", r>>
      ]_vars

C8_Witness ==
    /\ Len(refs) = 2
    /\ ~refs[1].deleted /\ refs[2].deleted
    /\ scope = {}
    /\ heapLive # allocated
    /\ resolved.ref = 1 /\ resolved.value = created[1]
    /\ lastOp[1] = "collect"

=============================================================================
